---- MODULE Spec2Model ----
(***************************************************************************)
(* Model of grizzlaxy/auth.py: the path-scoped permission resolver          *)
(* (PermissionDict), its file-backed variant (PermissionFile), the way      *)
(* both are rebuilt by reset(), and the gate OAuthMiddleware.dispatch puts  *)
(* in front of the application.                                             *)
(*                                                                          *)
(* Strings are sequences of one-character strings, so that str.split("/"),  *)
(* the test `"*" in user` and fnmatch are computed character by character.  *)
(* A JSON text is either unparseable or carries the document json.loads     *)
(* returns for it.                                                          *)
(***************************************************************************)
EXTENDS Naturals, Sequences, FiniteSets, TLC

VARIABLES
    file,         \* content of the permissions file
    permissions,  \* self.permissions
    cache,        \* self.cache
    wild,         \* self.wild
    last,         \* the last operation and its outcome
    heap,         \* threads: the table objects made so far, and self.cache / self.wild
    thr,          \* threads: the calls in progress
    rst,          \* threads: the reset in progress
    session,      \* middleware: request.session
    response      \* middleware: what dispatch answered to the last request

vars == <<file, permissions, cache, wild, last, heap, thr, rst, session, response>>

seqVars == <<file, cache, wild, last>>
conVars == <<heap, thr, rst>>
webVars == <<session, response>>

(* ------------------------------------------------------------------ *)
(* Bounds and input sets                                               *)
(* ------------------------------------------------------------------ *)

\* Largest number of path keys in a rule table that is queried.
MaxRules == 2

\* Largest number of path keys in a document given to write() or reloaded.
MaxReloadRules == 1

\* Threads that call the resolver at the same time.
NThreads == 2

\* Calls each thread makes.
MaxCalls == 1

\* reset() calls made while the threads run.
MaxReloads == 1

\* Identities that query the resolver (user["email"]).
alice == <<"a", "@", "x">>
bob == <<"b", "@", "y">>
Emails == {alice, bob}

\* Request paths given to __call__.
Paths == { <<"/">>, <<"/", "a">>, <<"/", "a", "/", "b">>, <<"/", "b">> }

\* Path keys of rule documents, in the order a document lists them.
Keys == << <<"/">>, <<"/", "a">>, <<"/", "a", "/", "b">> >>

\* One element of an "allowed" list: a JSON string, or a JSON number.
StrItem(s) == [str |-> TRUE, chars |-> s]
NumItem == [str |-> FALSE, chars |-> <<>>]

\* The value a document gives for a key: a JSON list, a JSON string or a
\* JSON number.
ListVal(items) == [kind |-> "list", items |-> items, chars |-> <<>>]
StrVal(s) == [kind |-> "str", items |-> <<>>, chars |-> s]
NumVal == [kind |-> "num", items |-> <<>>, chars |-> <<>>]

Values ==
    { ListVal(<<>>),
      ListVal(<<StrItem(alice)>>),
      ListVal(<<StrItem(<<"*", "@", "x">>)>>),
      ListVal(<<StrItem(bob), StrItem(<<"a", "*">>)>>),
      ListVal(<<StrItem(alice), NumItem>>),
      StrVal(<<"b", "*">>),
      NumVal }

\* A parsed document: a JSON object (its entries in document order), or
\* some other JSON value (a list, a number).
MapDoc(entries) == [kind |-> "map", entries |-> entries]
OtherDoc == [kind |-> "other", entries |-> <<>>]

Entry(k, v) == [key |-> k, value |-> v]

\* The entry lists with the keys of K, in the order of Keys, and with
\* values of V.
RECURSIVE EntriesOver(_, _, _)
EntriesOver(i, K, V) ==
    IF i > Len(Keys) THEN { <<>> }
    ELSE IF i \in K
         THEN { <<Entry(Keys[i], v)>> \o rest :
                    v \in V, rest \in EntriesOver(i + 1, K, V) }
         ELSE EntriesOver(i + 1, K, V)

\* The documents of at most n keys, among the keys numbered in I, with
\* values of V.
DocsOf(n, I, V) ==
    { OtherDoc } \cup
    { MapDoc(e) : e \in UNION { EntriesOver(1, K, V) :
                      K \in { S \in SUBSET I : Cardinality(S) <= n } } }

\* Texts: json tells whether json.loads accepts the text and doc is what
\* it returns. Garbage is some unparseable text, Empty the empty text,
\* TextOf(d) the text of document d in characters the file encoding has,
\* Unencodable(d) a text of d with a character write_text cannot encode
\* (a lone surrogate in a str).
Garbage == [json |-> FALSE, doc |-> OtherDoc, form |-> "text"]
Empty == [json |-> FALSE, doc |-> OtherDoc, form |-> "empty"]
TextOf(d) == [json |-> TRUE, doc |-> d, form |-> "text"]
Unencodable(d) == [json |-> TRUE, doc |-> d, form |-> "surrogate"]

\* write_text(text) can encode the text.
Encodable(text) == text.form /= "surrogate"

\* The rule tables the resolver is queried on.
Tables == DocsOf(MaxRules, 1..Len(Keys), Values)

\* The texts that write() and a reload are given.
ReloadValues ==
    { ListVal(<<StrItem(<<"*", "@", "x">>)>>),
      ListVal(<<StrItem(bob), StrItem(<<"a", "*">>)>>),
      ListVal(<<StrItem(alice), NumItem>>),
      StrVal(<<"b", "*">>) }
FileTexts == { Garbage } \cup { TextOf(d) : d \in DocsOf(MaxReloadRules, {1, 2}, ReloadValues) }
Texts ==
    FileTexts \cup
    { Unencodable(MapDoc(<<Entry(Keys[1], ListVal(<<StrItem(<<"*", "@", "x">>)>>))>>)) }

(* ------------------------------------------------------------------ *)
(* Pure helpers                                                        *)
(* ------------------------------------------------------------------ *)

\* str.split("/")
RECURSIVE SplitAcc(_, _, _)
SplitAcc(s, cur, acc) ==
    IF s = <<>> THEN Append(acc, cur)
    ELSE IF Head(s) = "/" THEN SplitAcc(Tail(s), <<>>, Append(acc, cur))
    ELSE SplitAcc(Tail(s), Append(cur, Head(s)), acc)

Split(s) == SplitAcc(s, <<>>, <<>>)

\* Mutant of KeyPath: no special case for the root key.
KeyPathSplitOnly(path) == Split(path)

\* Mutant of KeyPath: every key is filed under the root prefix.
KeyPathAllRoot(path) == << <<>> >>

\* reset(): the tuple a path key is filed under.
KeyPath(path) == IF path = <<"/">> THEN << <<>> >> ELSE Split(path)

\* "*" in user
HasStar(user) == \E i \in 1..Len(user) : user[i] = "*"

\* Mutant of fnmatch: "*" stands for one character or more.
RECURSIVE fnmatchStarSome(_, _)
fnmatchStarSome(name, pat) ==
    IF pat = <<>> THEN name = <<>>
    ELSE IF Head(pat) = "*"
         THEN name /= <<>> /\ (fnmatchStarSome(Tail(name), Tail(pat))
                               \/ fnmatchStarSome(Tail(name), pat))
    ELSE IF Head(pat) = "?"
         THEN name /= <<>> /\ fnmatchStarSome(Tail(name), Tail(pat))
    ELSE name /= <<>> /\ Head(name) = Head(pat)
         /\ fnmatchStarSome(Tail(name), Tail(pat))

\* fnmatch(name, pat) for patterns made of literals, "*" and "?".
RECURSIVE fnmatch(_, _)
fnmatch(name, pat) ==
    IF pat = <<>> THEN name = <<>>
    ELSE IF Head(pat) = "*"
         THEN fnmatch(name, Tail(pat))
              \/ (name /= <<>> /\ fnmatch(Tail(name), pat))
    ELSE IF Head(pat) = "?"
         THEN name /= <<>> /\ fnmatch(Tail(name), Tail(pat))
    ELSE name /= <<>> /\ Head(name) = Head(pat)
         /\ fnmatch(Tail(name), Tail(pat))

Answer(b) == IF b THEN "True" ELSE "False"

\* defaultdict: a missing key reads as the factory's empty value.
NoEntries == [e \in {} |-> TRUE]
DictAt(c, path) == IF path \in DOMAIN c THEN c[path] ELSE NoEntries
ListAt(w, path) == IF path \in DOMAIN w THEN w[path] ELSE <<>>

Put(f, k, v) == [x \in (DOMAIN f) \cup {k} |-> IF x = k THEN v ELSE f[x]]

\* Mutant of SetEntry: the dict at path is replaced by one that holds
\* the new entry alone.
SetEntryAlone(c, path, user, val) == Put(c, path, Put(NoEntries, user, val))

\* cache[path][user] = val
SetEntry(c, path, user, val) == Put(c, path, Put(DictAt(c, path), user, val))

\* wild[path].append(user)
AppendWild(w, path, user) == Put(w, path, Append(ListAt(w, path), user))

\* self.wild[current] read in __call__: the defaultdict files an empty
\* list under a key it does not have.
Touch(w, path) == IF path \in DOMAIN w THEN w ELSE Put(w, path, <<>>)
(* ------------------------------------------------------------------ *)
(* PermissionDict.reset: rebuilding the tables from self.permissions   *)
(* ------------------------------------------------------------------ *)

\* `for user in allowed`: a list yields its elements, a string its
\* characters; a number is not iterable.
Iterable(allowed) == allowed.kind /= "num"
Users(allowed) ==
    IF allowed.kind = "str"
    THEN [i \in 1..Len(allowed.chars) |-> StrItem(<<allowed.chars[i]>>)]
    ELSE allowed.items

\* The tables right after `self.cache = defaultdict(dict)` and
\* `self.wild = defaultdict(list)`; ok turns FALSE when the loop raises.
Fresh == [ok |-> TRUE, cache |-> NoEntries, wild |-> NoEntries]

\* One user of an allowed list: `"*" in user` raises for a number.
AddUser(st, path, user) ==
    IF ~user.str THEN [st EXCEPT !.ok = FALSE]
    ELSE IF HasStar(user.chars)
         THEN [st EXCEPT !.wild = AppendWild(st.wild, path, user.chars)]
         ELSE [st EXCEPT !.cache = SetEntry(st.cache, path, user.chars, TRUE)]

RECURSIVE AddUsers(_, _, _)
AddUsers(st, path, users) ==
    IF ~st.ok \/ users = <<>> THEN st
    ELSE AddUsers(AddUser(st, path, Head(users)), path, Tail(users))

RECURSIVE AddRules(_, _)
AddRules(st, entries) ==
    IF ~st.ok \/ entries = <<>> THEN st
    ELSE LET e == Head(entries) IN
         IF ~Iterable(e.value) THEN [st EXCEPT !.ok = FALSE]
         ELSE AddRules(AddUsers(st, KeyPath(e.key), Users(e.value)), Tail(entries))

\* PermissionDict.reset(): `.items()` raises for a document that is not
\* an object, after both tables were replaced by empty ones.
Build(perm) ==
    IF perm.kind /= "map" THEN [Fresh EXCEPT !.ok = FALSE]
    ELSE AddRules(Fresh, perm.entries)

\* The entries of cache c, overridden by those of cache n.
Merged(c, n) ==
    [path \in (DOMAIN c) \cup (DOMAIN n) |->
        [u \in (DOMAIN DictAt(c, path)) \cup (DOMAIN DictAt(n, path)) |->
            IF u \in DOMAIN DictAt(n, path) THEN n[path][u] ELSE c[path][u]]]

\* Mutant of ResetFrom: the old cache is kept and the new exact entries
\* are added to it.
ResetFromKeepCache(text, perm, c, w) ==
    IF ~text.json
    THEN [ok |-> FALSE, permissions |-> perm, cache |-> c, wild |-> w]
    ELSE LET b == Build(text.doc) IN
         [ok |-> b.ok, permissions |-> text.doc,
          cache |-> Merged(c, b.cache), wild |-> b.wild]

\* Mutant of ResetFrom: the wildcard table is replaced and not filled.
ResetFromDropWild(text, perm, c, w) ==
    IF ~text.json
    THEN [ok |-> FALSE, permissions |-> perm, cache |-> c, wild |-> w]
    ELSE LET b == Build(text.doc) IN
         [ok |-> b.ok, permissions |-> text.doc, cache |-> b.cache, wild |-> NoEntries]

\* PermissionFile.reset() on file content text: json.loads raises before
\* anything is assigned; otherwise self.permissions is assigned and the
\* tables are rebuilt, completely or up to the point where the loop raises.
ResetFrom(text, perm, c, w) ==
    IF ~text.json
    THEN [ok |-> FALSE, permissions |-> perm, cache |-> c, wild |-> w]
    ELSE LET b == Build(text.doc) IN
         [ok |-> b.ok, permissions |-> text.doc, cache |-> b.cache, wild |-> b.wild]

(* ------------------------------------------------------------------ *)
(* PermissionDict.__call__                                             *)
(* ------------------------------------------------------------------ *)

\* `for wild in self.wild[current]: if fnmatch(email, wild)`
WildMatch(w, current, email) ==
    \E k \in 1..Len(ListAt(w, current)) : fnmatch(email, ListAt(w, current)[k])

\* The prefix, when the loop over self.wild[current] has a pattern to
\* evaluate there.
Globbed(w, current) == IF ListAt(w, current) = <<>> THEN {} ELSE {current}

\* Mutant of Scan: a cached False ends the scan with a denial.
RECURSIVE ScanBlocked(_, _, _, _, _)
ScanBlocked(c, w, email, parts, i) ==
    IF i > Len(parts) THEN [res |-> FALSE, cache |-> c, wild |-> w, globbed |-> {}]
    ELSE LET current == SubSeq(parts, 1, i)
             d == DictAt(c, current) IN
         IF email \in DOMAIN d
         THEN [res |-> d[email], cache |-> c, wild |-> w, globbed |-> {}]
         ELSE IF WildMatch(w, current, email)
              THEN [res |-> TRUE, cache |-> SetEntry(c, current, email, TRUE),
                    wild |-> Touch(w, current), globbed |-> {current}]
              ELSE LET r == ScanBlocked(SetEntry(c, current, email, FALSE),
                                        Touch(w, current), email, parts, i + 1) IN
                   [r EXCEPT !.globbed = @ \cup Globbed(w, current)]

\* Variants of Scan, each with one slip: "recheck" evaluates the
\* patterns again where False is cached, "nostore" does not cache a
\* miss, "grant" caches a miss as True.
RECURSIVE ScanVariant(_, _, _, _, _, _)
ScanVariant(mode, c, w, email, parts, i) ==
    IF i > Len(parts) THEN [res |-> FALSE, cache |-> c, wild |-> w, globbed |-> {}]
    ELSE LET current == SubSeq(parts, 1, i)
             d == DictAt(c, current)
             known == email \in DOMAIN d IN
         IF known /\ d[email]
         THEN [res |-> TRUE, cache |-> c, wild |-> w, globbed |-> {}]
         ELSE IF known /\ mode /= "recheck"
              THEN ScanVariant(mode, c, w, email, parts, i + 1)
         ELSE IF WildMatch(w, current, email)
              THEN [res |-> TRUE, cache |-> SetEntry(c, current, email, TRUE),
                    wild |-> Touch(w, current), globbed |-> {current}]
              ELSE LET stored == IF mode = "nostore" THEN c
                                 ELSE SetEntry(c, current, email, mode = "grant")
                       r == ScanVariant(mode, stored, Touch(w, current),
                                        email, parts, i + 1) IN
                   [r EXCEPT !.globbed = @ \cup Globbed(w, current)]

\* Mutants of Scan.
ScanGrantsMiss(c, w, email, parts, i) == ScanVariant("grant", c, w, email, parts, i)
ScanRecheck(c, w, email, parts, i) == ScanVariant("recheck", c, w, email, parts, i)
ScanNoStore(c, w, email, parts, i) == ScanVariant("nostore", c, w, email, parts, i)

\* The loop over the prefixes of parts, from prefix i on: the result,
\* the tables the call leaves, and the prefixes at which it evaluated
\* fnmatch (globbed).
RECURSIVE Scan(_, _, _, _, _)
Scan(c, w, email, parts, i) ==
    IF i > Len(parts) THEN [res |-> FALSE, cache |-> c, wild |-> w, globbed |-> {}]
    ELSE LET current == SubSeq(parts, 1, i)
             d == DictAt(c, current) IN
         IF email \in DOMAIN d
         THEN IF d[email] THEN [res |-> TRUE, cache |-> c, wild |-> w, globbed |-> {}]
              ELSE Scan(c, w, email, parts, i + 1)
         ELSE IF WildMatch(w, current, email)
              THEN [res |-> TRUE, cache |-> SetEntry(c, current, email, TRUE),
                    wild |-> Touch(w, current), globbed |-> {current}]
              ELSE LET r == Scan(SetEntry(c, current, email, FALSE),
                                 Touch(w, current), email, parts, i + 1) IN
                   [r EXCEPT !.globbed = @ \cup Globbed(w, current)]

\* Mutant of Call: only the full path is looked up.
CallFullPathOnly(c, w, email, path) ==
    Scan(c, w, email, Split(path), Len(Split(path)))

\* __call__(user, path), with email = user["email"].
Call(c, w, email, path) == Scan(c, w, email, Split(path), 1)

(* ------------------------------------------------------------------ *)
(* PermissionFile.write                                                *)
(* ------------------------------------------------------------------ *)

\* Mutant of WriteTo: after a failed reset the file is restored but the
\* tables are not rebuilt from it.
WriteToNoRebuild(new, dry, f, perm, c, w) ==
    LET same == [raised |-> FALSE, file |-> f, permissions |-> perm,
                 cache |-> c, wild |-> w] IN
    IF ~new.json THEN [same EXCEPT !.raised = TRUE]
    ELSE IF dry THEN same
    ELSE IF ~Encodable(new) THEN [same EXCEPT !.raised = TRUE, !.file = Empty]
    ELSE LET r == ResetFrom(new, perm, c, w) IN
         [raised |-> ~r.ok, file |-> IF r.ok THEN new ELSE f,
          permissions |-> r.permissions, cache |-> r.cache, wild |-> r.wild]

\* Mutant of WriteTo: `if not dry` is missing, a dry write commits.
WriteToDryCommits(new, dry, f, perm, c, w) ==
    LET same == [raised |-> FALSE, file |-> f, permissions |-> perm,
                 cache |-> c, wild |-> w] IN
    IF ~new.json THEN [same EXCEPT !.raised = TRUE]
    ELSE IF ~Encodable(new) THEN [same EXCEPT !.raised = TRUE, !.file = Empty]
    ELSE LET r == ResetFrom(new, perm, c, w) IN
         IF r.ok
         THEN [raised |-> FALSE, file |-> new, permissions |-> r.permissions,
               cache |-> r.cache, wild |-> r.wild]
         ELSE LET b == ResetFrom(f, r.permissions, r.cache, r.wild) IN
              [raised |-> TRUE, file |-> f, permissions |-> b.permissions,
               cache |-> b.cache, wild |-> b.wild]

\* The state write(new, dry) leaves, and whether it raised. json.loads
\* raises for an unparseable text before anything is written. write_text
\* opens the file for writing, which empties it, and then encodes the
\* text: when that raises, outside the try block, the file stays empty
\* and nothing is reloaded. Inside the try block a reset() that raises is
\* followed by writing the previous text back and another reset().
WriteTo(new, dry, f, perm, c, w) ==
    LET same == [raised |-> FALSE, file |-> f, permissions |-> perm,
                 cache |-> c, wild |-> w] IN
    IF ~new.json THEN [same EXCEPT !.raised = TRUE]
    ELSE IF dry THEN same
    ELSE IF ~Encodable(new) THEN [same EXCEPT !.raised = TRUE, !.file = Empty]
    ELSE LET r == ResetFrom(new, perm, c, w) IN
         IF r.ok
         THEN [raised |-> FALSE, file |-> new, permissions |-> r.permissions,
               cache |-> r.cache, wild |-> r.wild]
         ELSE LET b == ResetFrom(f, r.permissions, r.cache, r.wild) IN
              [raised |-> TRUE, file |-> f, permissions |-> b.permissions,
               cache |-> b.cache, wild |-> b.wild]

(* ------------------------------------------------------------------ *)
(* The state machine                                                   *)
(* ------------------------------------------------------------------ *)

\* A rule document of the expected shape: an object whose values are
\* lists of strings.
WellFormed(perm) ==
    /\ perm.kind = "map"
    /\ \A i \in 1..Len(perm.entries) :
          /\ perm.entries[i].value.kind = "list"
          /\ \A k \in 1..Len(perm.entries[i].value.items) :
                perm.entries[i].value.items[k].str

\* The last operation and its outcome. For a call: the identity, the
\* path, the result and whether the scan met a cached False. For a
\* write: dry, whether the text parsed (json), had the expected shape
\* (shaped) and can be rebuilt from without an exception (builds). For
\* a reload that succeeded: the identities that had a True (hadTrue) or
\* a False (hadFalse) in the cache it replaced. For a call also: whether
\* the operation before it was a call with the same arguments (again),
\* and the prefixes at which it evaluated patterns (globbed).
NoOp == [op |-> "init", user |-> <<>>, path |-> <<>>, res |-> "ok",
         dry |-> FALSE, json |-> TRUE, shaped |-> TRUE, builds |-> TRUE,
         sawFalse |-> FALSE,
         hadTrue |-> {}, hadFalse |-> {},
         again |-> FALSE, globbed |-> {}]

\* The identities with an entry of value val somewhere in cache c.
Holders(c, val) ==
    { u \in Emails : \E path \in DOMAIN c :
                         u \in DOMAIN c[path] /\ c[path][u] = val }

\* The prefixes of parts from the shortest on all hold a cached False
\* for email, up to some depth: the scan finds a cached False.
FoundFalse(c, email, parts) ==
    LET d == DictAt(c, SubSeq(parts, 1, 1)) IN
    email \in DOMAIN d /\ ~d[email]

Threads == 1..NThreads

\* A thread that is not in a call. In a call: email and path are the
\* arguments, i the prefix length, cref and wref the table objects the
\* call got from self.cache and self.wild, k the place in the wildcard
\* list, res the returned value, during whether a reset ran during it,
\* calls the number of calls the thread has made.
Idle == [pc |-> "idle", email |-> <<>>, path |-> <<>>, i |-> 0, cref |-> 0,
         wref |-> 0, k |-> 0, res |-> "none", during |-> FALSE, calls |-> 0]

\* PermissionFile(permissions_file): the constructor returned, so the
\* file parsed and the tables were built from it.
Constructed(texts) ==
    /\ file \in { t \in texts : t.json /\ Build(t.doc).ok }
    /\ permissions = file.doc
    /\ cache = Build(file.doc).cache
    /\ wild = Build(file.doc).wild
    /\ last = NoOp

\* No threads: the thread variables are not used.
NoThreads ==
    /\ heap = [caches |-> <<NoEntries>>, wilds |-> <<NoEntries>>,
               cache |-> 1, wild |-> 1]
    /\ thr = [t \in Threads |-> Idle]
    /\ rst = [pc |-> "idle", old |-> OtherDoc, j |-> 0, n |-> 0]

\* Threads that share the resolver just constructed: self.cache and
\* self.wild are the first table objects, no call and no reset has begun.
SharedBy ==
    /\ heap = [caches |-> <<cache>>, wilds |-> <<wild>>, cache |-> 1, wild |-> 1]
    /\ thr = [t \in Threads |-> Idle]
    /\ rst = [pc |-> "idle", old |-> permissions, j |-> 0, n |-> 0]

\* No request was dispatched: no session, no response.
NoSession == [user |-> <<>>, redirect |-> <<>>]
NoResponse == [kind |-> "none", to |-> <<>>, path |-> <<>>, user |-> <<>>,
               app |-> FALSE, asked |-> FALSE, allowed |-> FALSE]
NoRequests == session = NoSession /\ response = NoResponse

Init == Constructed(FileTexts) /\ NoThreads /\ NoRequests

InitCall == Constructed({ TextOf(d) : d \in Tables }) /\ NoThreads /\ NoRequests

\* is_authorized(user, path), for an identity of E and a path of P.
Ask(E, P) ==
    \E u \in E, p \in P :
        LET r == Call(cache, wild, u, p) IN
        /\ cache' = r.cache
        /\ wild' = r.wild
        /\ last' = [NoOp EXCEPT !.op = "call", !.user = u, !.path = p,
                                !.res = IF r.res THEN "True" ELSE "False",
                                !.sawFalse = FoundFalse(cache, u, Split(p)),
                                !.again = (/\ last.op = "call" /\ last.user = u
                                           /\ last.path = p),
                                !.globbed = r.globbed]
        /\ UNCHANGED <<file, permissions, conVars, webVars>>

Query == Ask(Emails, Paths)

\* Calls on a resolver whose rule documents have the keys "/" and "/a".
FilePaths == { <<"/">>, <<"/", "a">> }
FileQuery == Ask(Emails, FilePaths)

\* write(new_permissions, dry)
Write ==
    \E new \in Texts, dry \in BOOLEAN :
        LET r == WriteTo(new, dry, file, permissions, cache, wild) IN
        /\ file' = r.file
        /\ permissions' = r.permissions
        /\ cache' = r.cache
        /\ wild' = r.wild
        /\ last' = [NoOp EXCEPT !.op = "write", !.dry = dry,
                                !.res = IF r.raised THEN "raise" ELSE "ok",
                                !.json = new.json,
                                !.shaped = new.json /\ WellFormed(new.doc),
                                !.builds = new.json /\ Build(new.doc).ok,
                                !.hadTrue = IF r.raised \/ dry THEN {}
                                            ELSE Holders(cache, TRUE),
                                !.hadFalse = IF r.raised \/ dry THEN {}
                                             ELSE Holders(cache, FALSE)]
        /\ UNCHANGED <<conVars, webVars>>

\* reset() with text as the content of the permissions file.
DoReset(text) ==
    LET r == ResetFrom(text, permissions, cache, wild) IN
    /\ file' = text
    /\ permissions' = r.permissions
    /\ cache' = r.cache
    /\ wild' = r.wild
    /\ last' = [NoOp EXCEPT !.op = "reset",
                            !.res = IF r.ok THEN "ok" ELSE "raise",
                            !.hadTrue = IF r.ok THEN Holders(cache, TRUE) ELSE {},
                            !.hadFalse = IF r.ok THEN Holders(cache, FALSE) ELSE {}]
    /\ UNCHANGED <<conVars, webVars>>

\* reset() on an unchanged file.
Reset == DoReset(file)

\* reset() after the file was replaced outside write().
Reload == \E text \in FileTexts \ {file} : DoReset(text)

Next == FileQuery \/ Write \/ Reset \/ Reload

Spec == Init /\ [][Next]_vars

\* A PermissionFile whose file is written by write() alone.
NextFile == FileQuery \/ Write

SpecFile == Init /\ [][NextFile]_vars

\* Queries against one rule table, rebuilt from unchanged data now and then.
NextCall == Query \/ Reset

SpecCall == InitCall /\ [][NextCall]_vars

\* Queries against a table whose only rule is one wildcard pattern at the
\* root, by identities that match it in different ways or not at all.
GlobPatterns == { <<"*", "@", "x">>, <<"a", "*">>, <<"a", "*", "x">>, <<"*">> }
GlobTables ==
    { MapDoc(<<Entry(Keys[1], ListVal(<<StrItem(pat)>>))>>) : pat \in GlobPatterns }
GlobEmails == { alice, bob, <<"@", "x">>, <<"a", "@", "x", "y">>, <<"x">> }
GlobPaths == { <<"/">>, <<"/", "a", "/", "b">> }

InitGlob == Constructed({ TextOf(d) : d \in GlobTables }) /\ NoThreads /\ NoRequests

GlobQuery == Ask(GlobEmails, GlobPaths)

NextGlob == GlobQuery

SpecGlob == InitGlob /\ [][NextGlob]_vars
(* ------------------------------------------------------------------ *)
(* Threads: calls and a reset interleaved statement by statement       *)
(* ------------------------------------------------------------------ *)

\* The rule tables of the runs with a reset, those of the runs without,
\* and the paths asked for. The steps of the threads read the tables
\* through DictAt and ListAt: an empty dict or list a lookup files in a
\* defaultdict is not told apart from a missing key.
RaceTables ==
    { d \in DocsOf(1, {1, 2}, { ListVal(<<StrItem(<<"*", "@", "x">>)>>),
                                ListVal(<<StrItem(bob), StrItem(<<"a", "*">>)>>) }) :
        d.kind = "map" /\ d.entries /= <<>> }
ThreadTables ==
    { d \in RaceTables :
        (d.entries[1].key = <<"/">>) = (Len(d.entries[1].value.items) = 1) }
ThreadPaths == { <<"/">>, <<"/", "a">> }

InitThreads == Constructed({ TextOf(d) : d \in ThreadTables }) /\ SharedBy /\ NoRequests

InitRace == Constructed({ TextOf(d) : d \in RaceTables }) /\ SharedBy /\ NoRequests

Current(t) == SubSeq(Split(thr[t].path), 1, thr[t].i)

\* Mutant of NextPrefix: `return False` inside the loop.
NextPrefixNone(t) ==
    [thr[t] EXCEPT !.pc = "done", !.res = "False",
                   !.i = 0, !.cref = 0, !.wref = 0, !.k = 0]

\* The end of one round of the loop over the prefixes: the next prefix,
\* or `return False` after the last one.
NextPrefix(t) ==
    IF thr[t].i < Len(Split(thr[t].path))
    THEN [thr[t] EXCEPT !.pc = "fetch", !.i = @ + 1, !.cref = 0, !.wref = 0, !.k = 0]
    ELSE [thr[t] EXCEPT !.pc = "done", !.res = "False",
                        !.i = 0, !.cref = 0, !.wref = 0, !.k = 0]

Return(t, val) ==
    [thr[t] EXCEPT !.pc = "done", !.res = Answer(val),
                   !.i = 0, !.cref = 0, !.wref = 0, !.k = 0]

\* cache[email] = val, on the dict the call holds.
Store(t, val) ==
    [heap EXCEPT !.caches[thr[t].cref] = SetEntry(@, Current(t), thr[t].email, val)]

\* __call__ is entered: parts, email, and the first prefix. The threads
\* run the same code, so a thread enters its n-th call only after the
\* threads numbered below it have entered theirs.
Begin(t) ==
    /\ thr[t].pc \in {"idle", "done"}
    /\ thr[t].calls < MaxCalls
    /\ \A o \in Threads : o < t => thr[o].calls >= thr[t].calls + 1
    /\ \E u \in Emails, p \in ThreadPaths :
          thr' = [thr EXCEPT ![t] = [Idle EXCEPT !.pc = "fetch", !.email = u,
                                         !.path = p, !.i = 1,
                                         !.during = rst.pc /= "idle",
                                         !.calls = thr[t].calls + 1]]
    /\ UNCHANGED <<permissions, seqVars, webVars, heap, rst>>

\* cache = self.cache[current]
Fetch(t) ==
    /\ thr[t].pc = "fetch"
    /\ thr' = [thr EXCEPT ![t].pc = "test", ![t].cref = heap.cache]
    /\ UNCHANGED <<permissions, seqVars, webVars, heap, rst>>

\* `if email in cache`; when it is not, the loop over self.wild[current]
\* starts on the list self.wild holds now.
Test(t) ==
    /\ thr[t].pc = "test"
    /\ thr' = [thr EXCEPT ![t] =
                  IF thr[t].email \in DOMAIN DictAt(heap.caches[thr[t].cref], Current(t))
                  THEN [@ EXCEPT !.pc = "read"]
                  ELSE [@ EXCEPT !.pc = "wild", !.wref = heap.wild, !.k = 1]]
    /\ UNCHANGED <<permissions, seqVars, webVars, heap, rst>>

\* `if cache[email]: return True`
Read(t) ==
    /\ thr[t].pc = "read"
    /\ thr' = [thr EXCEPT ![t] =
                  IF DictAt(heap.caches[thr[t].cref], Current(t))[thr[t].email]
                  THEN Return(t, TRUE)
                  ELSE NextPrefix(t)]
    /\ UNCHANGED <<permissions, seqVars, webVars, heap, rst>>

\* One round of `for wild in self.wild[current]: if fnmatch(email, wild)`
Wild(t) ==
    /\ thr[t].pc = "wild"
    /\ LET lst == ListAt(heap.wilds[thr[t].wref], Current(t)) IN
       thr' = [thr EXCEPT ![t] =
                  IF thr[t].k > Len(lst) THEN [@ EXCEPT !.pc = "miss"]
                  ELSE IF fnmatch(thr[t].email, lst[thr[t].k])
                       THEN [@ EXCEPT !.pc = "hit"]
                       ELSE [@ EXCEPT !.k = @ + 1]]
    /\ UNCHANGED <<permissions, seqVars, webVars, heap, rst>>

\* cache[email] = True; return True
Hit(t) ==
    /\ thr[t].pc = "hit"
    /\ heap' = Store(t, TRUE)
    /\ thr' = [thr EXCEPT ![t] = Return(t, TRUE)]
    /\ UNCHANGED <<permissions, seqVars, webVars, rst>>

\* cache[email] = False
Miss(t) ==
    /\ thr[t].pc = "miss"
    /\ heap' = Store(t, FALSE)
    /\ thr' = [thr EXCEPT ![t] = NextPrefix(t)]
    /\ UNCHANGED <<permissions, seqVars, webVars, rst>>

\* The (path, user) pairs the loops of reset() visit, in order.
RECURSIVE Visits(_)
Visits(entries) ==
    IF entries = <<>> THEN <<>>
    ELSE LET e == Head(entries)
             us == Users(e.value) IN
         [k \in 1..Len(us) |-> [path |-> KeyPath(e.key), user |-> us[k]]]
             \o Visits(Tail(entries))

\* The rule data is replaced and reset() is entered.
StartReload ==
    /\ rst.pc = "idle" /\ rst.n < MaxReloads
    /\ \E new \in RaceTables :
          /\ permissions' = new
          /\ rst' = [pc |-> "cache", old |-> permissions, j |-> 0, n |-> rst.n + 1]
    /\ thr' = [t \in Threads |->
                  IF thr[t].pc \in {"idle", "done"} THEN thr[t]
                  ELSE [thr[t] EXCEPT !.during = TRUE]]
    /\ UNCHANGED <<seqVars, webVars, heap>>

\* self.cache = defaultdict(dict)
NewCache ==
    /\ rst.pc = "cache"
    /\ heap' = [heap EXCEPT !.caches = Append(@, NoEntries),
                            !.cache = Len(heap.caches) + 1]
    /\ rst' = [rst EXCEPT !.pc = "wild"]
    /\ UNCHANGED <<permissions, seqVars, webVars, thr>>

\* self.wild = defaultdict(list)
NewWild ==
    /\ rst.pc = "wild"
    /\ heap' = [heap EXCEPT !.wilds = Append(@, NoEntries),
                            !.wild = Len(heap.wilds) + 1]
    /\ rst' = [rst EXCEPT !.pc = "loop", !.j = 1]
    /\ UNCHANGED <<permissions, seqVars, webVars, thr>>

\* One user of the loops: filed in self.wild or in self.cache; after the
\* last one reset() returns.
AddNext ==
    /\ rst.pc = "loop"
    /\ LET vs == Visits(permissions.entries) IN
       IF rst.j > Len(vs)
       THEN /\ rst' = [rst EXCEPT !.pc = "idle", !.j = 0]
            /\ heap' = heap
       ELSE LET st == AddUser([ok |-> TRUE, cache |-> heap.caches[heap.cache],
                               wild |-> heap.wilds[heap.wild]],
                              vs[rst.j].path, vs[rst.j].user) IN
            /\ heap' = [heap EXCEPT !.caches[heap.cache] = st.cache,
                                    !.wilds[heap.wild] = st.wild]
            /\ rst' = [rst EXCEPT !.j = @ + 1]
    /\ UNCHANGED <<permissions, seqVars, webVars, thr>>

\* Calls from several threads, no reset.
NextThreads ==
    \E t \in Threads :
        Begin(t) \/ Fetch(t) \/ Test(t) \/ Read(t) \/ Wild(t) \/ Hit(t) \/ Miss(t)

SpecThreads == InitThreads /\ [][NextThreads]_vars

\* Calls from several threads while another thread runs reset().
NextRace == NextThreads \/ StartReload \/ NewCache \/ NewWild \/ AddNext

SpecRace == InitRace /\ [][NextRace]_vars

(* ------------------------------------------------------------------ *)
(* OAuthMiddleware: the gate in front of the application               *)
(* ------------------------------------------------------------------ *)

LoginPath == <<"/", "_", "/", "l", "o", "g", "i", "n">>
AuthPath == <<"/", "_", "/", "a", "u", "t", "h">>
LogoutPath == <<"/", "_", "/", "l", "o", "g", "o", "u", "t">>

\* The paths requested: two pages of the application, the three routes
\* the middleware adds, and a route of the application under "/_/".
GatePaths == { <<"/">>, <<"/", "a">>, LoginPath, AuthPath, LogoutPath,
               <<"/", "_", "/", "x">> }

\* s.startswith(pre)
StartsWith(s, pre) == Len(s) >= Len(pre) /\ SubSeq(s, 1, Len(pre)) = pre

\* `(path := request.url.path).startswith("/_/")`
Exempt(path) == StartsWith(path, <<"/", "_", "/">>)

\* What call_next(request) does: the routes of the middleware, or a page
\* of the application. userinfo is what the provider's token names (<<>>
\* when it names nobody); "provider" is the redirect to the identity
\* provider.
Downstream(path, sess, userinfo) ==
    IF path = LoginPath
    THEN [session |-> sess, kind |-> "provider", to |-> <<>>]
    ELSE IF path = AuthPath
    THEN [session |-> IF userinfo /= <<>> THEN [sess EXCEPT !.user = userinfo]
                      ELSE sess,
          kind |-> "redirect",
          to |-> IF sess.redirect /= <<>> THEN sess.redirect ELSE <<"/">>]
    ELSE IF path = LogoutPath
    THEN [session |-> [sess EXCEPT !.user = <<>>], kind |-> "redirect",
          to |-> <<"/">>]
    ELSE [session |-> sess, kind |-> "page", to |-> <<>>]

\* Mutant of Verdict: the `elif not self.is_authorized(user, path)`
\* branch is missing.
VerdictNoAuth(user, authorized) ==
    IF user = <<>> THEN "login" ELSE "next"

\* The branches of dispatch for a path that is not exempt: no session
\* user, a user is_authorized refuses, a user it accepts.
Verdict(user, authorized) ==
    IF user = <<>> THEN "login"
    ELSE IF ~authorized THEN "forbidden"
    ELSE "next"

\* dispatch(request, call_next) for a request of the path; the response
\* records the path, the session user dispatch found (user), whether
\* is_authorized was called (asked) and returned True (allowed), and
\* whether call_next was called (app).
Dispatch(path, userinfo) ==
    LET user == session.user
        r == Call(cache, wild, user, path)
        v == Verdict(user, r.res)
        d == Downstream(path, session, userinfo)
        seen == [NoResponse EXCEPT !.path = path, !.user = user] IN
    /\ IF Exempt(path)
       THEN /\ session' = d.session
            /\ response' = [seen EXCEPT !.kind = d.kind, !.to = d.to, !.app = TRUE]
            /\ UNCHANGED <<cache, wild>>
       ELSE IF v = "login"
       THEN /\ session' = [session EXCEPT !.redirect = path]
            /\ response' = [seen EXCEPT !.kind = "redirect", !.to = LoginPath]
            /\ UNCHANGED <<cache, wild>>
       ELSE /\ cache' = r.cache
            /\ wild' = r.wild
            /\ IF v = "forbidden"
               THEN /\ session' = session
                    /\ response' = [seen EXCEPT !.kind = "forbidden", !.asked = TRUE,
                                                !.allowed = r.res]
               ELSE /\ session' = d.session
                    /\ response' = [seen EXCEPT !.kind = d.kind, !.to = d.to,
                                                !.asked = TRUE, !.allowed = r.res,
                                                !.app = TRUE]
    /\ UNCHANGED <<file, permissions, last, conVars>>

InitGate == Constructed({ TextOf(d) : d \in RaceTables }) /\ NoThreads /\ NoRequests

NextGate == \E path \in GatePaths, userinfo \in Emails \cup { <<>> } : Dispatch(path, userinfo)

SpecGate == InitGate /\ [][NextGate]_vars

(* ------------------------------------------------------------------ *)
(* What the rule document declares                                     *)
(* ------------------------------------------------------------------ *)

\* key names path itself or an ancestor of it: "/" is above every
\* absolute path, any other key is above the paths that continue it
\* with "/".
IsPrefixOf(key, path) ==
    IF key = <<"/">> THEN path /= <<>> /\ Head(path) = "/"
    ELSE \/ path = key
         \/ /\ Len(path) > Len(key)
            /\ SubSeq(path, 1, Len(key)) = key
            /\ path[Len(key) + 1] = "/"

\* path continues key by at least one segment.
Extends(path, key) == IsPrefixOf(key, path) /\ path /= key

\* email is an exact entry of the allowed list, or matches one of its
\* wildcard patterns.
Allows(allowed, email) ==
    \E k \in 1..Len(allowed.items) :
        LET s == allowed.items[k].chars IN
        IF \E j \in 1..Len(s) : s[j] = "*" THEN fnmatch(email, s) ELSE s = email

\* Some rule declared at path or above it allows email.
Granted(perm, email, path) ==
    \E i \in 1..Len(perm.entries) :
        /\ IsPrefixOf(perm.entries[i].key, path)
        /\ Allows(perm.entries[i].value, email)

(* ------------------------------------------------------------------ *)
(* Claims                                                              *)
(* ------------------------------------------------------------------ *)

\* C1: on a well-formed rule table, whatever the cache holds from
\* earlier calls, a call returns True exactly when some rule declared at
\* a prefix of the path (the path itself included) allows the email, and
\* False otherwise.
C1_OrOverPrefixes ==
    (last.op = "call" /\ WellFormed(permissions))
        => last.res = Answer(Granted(permissions, last.user, last.path))

\* A call that found a decision cached by an earlier call and returned
\* True from a deeper prefix.
C1_Witness ==
    /\ last.op = "call" /\ WellFormed(permissions)
    /\ last.sawFalse /\ last.res = "True"

\* C9: when a rule at a key allows the email, a call for a path that
\* continues the key by one or more segments returns True.
C9_Inheritance ==
    (last.op = "call" /\ WellFormed(permissions))
        => \A i \in 1..Len(permissions.entries) :
              (/\ Allows(permissions.entries[i].value, last.user)
               /\ Extends(last.path, permissions.entries[i].key))
                  => last.res = "True"

\* A call two segments below the only rule of the table.
C9_Witness ==
    /\ last.op = "call" /\ WellFormed(permissions)
    /\ last.res = "True"
    /\ Len(permissions.entries) = 1
    /\ permissions.entries[1].key = <<"/">>
    /\ last.path = <<"/", "a", "/", "b">>

\* The rule at entry i allows email at a key below the root, and no
\* rule above that key allows it.
DeeperGrant(perm, i, email) ==
    /\ perm.entries[i].key /= <<"/">>
    /\ Allows(perm.entries[i].value, email)
    /\ \A j \in 1..Len(perm.entries) :
          Extends(perm.entries[i].key, perm.entries[j].key)
              => ~Allows(perm.entries[j].value, email)

\* C10: a prefix that grants nothing does not block a deeper one: when a
\* rule at a deeper prefix of the path allows the email, the call
\* returns True, also when it finds False cached at the shallower
\* prefixes.
C10_DeeperGrant ==
    (last.op = "call" /\ WellFormed(permissions))
        => \A i \in 1..Len(permissions.entries) :
              (/\ DeeperGrant(permissions, i, last.user)
               /\ IsPrefixOf(permissions.entries[i].key, last.path))
                  => last.res = "True"

\* A later call that found False cached at the root, whose rule list is
\* empty, and was granted by a deeper rule.
C10_Witness ==
    /\ last.op = "call" /\ WellFormed(permissions)
    /\ last.sawFalse /\ last.res = "True"
    /\ \E i, j \in 1..Len(permissions.entries) :
          /\ permissions.entries[j].key = <<"/">>
          /\ permissions.entries[j].value = ListVal(<<>>)
          /\ DeeperGrant(permissions, i, last.user)
          /\ IsPrefixOf(permissions.entries[i].key, last.path)
\* The last operation replaced the rule data and rebuilt the tables.
Reloaded ==
    \/ last.op = "reset" /\ last.res = "ok"
    \/ last.op = "write" /\ last.res = "ok" /\ ~last.dry

\* C2: after a reload to a well-formed rule table nothing of the previous
\* generation is left: the cache holds only the exact entries the new
\* rules declare, and the first call for any identity and path returns
\* the answer of the new rules.
C2_NothingStale ==
    (Reloaded /\ WellFormed(permissions))
        => /\ \A u \in Emails, p \in Paths :
                Call(cache, wild, u, p).res = Granted(permissions, u, p)
           /\ \A path \in DOMAIN cache : \A u \in DOMAIN cache[path] :
                /\ cache[path][u]
                /\ \E i \in 1..Len(permissions.entries) :
                      /\ KeyPath(permissions.entries[i].key) = path
                      /\ Allows(permissions.entries[i].value, u)

\* A reload after which an identity that had True cached is denied
\* everywhere, and one that had False cached is allowed somewhere.
C2_Witness ==
    /\ Reloaded /\ WellFormed(permissions)
    /\ \E u \in last.hadTrue : \A p \in Paths : ~Granted(permissions, u, p)
    /\ \E u \in last.hadFalse : \E p \in Paths : Granted(permissions, u, p)

\* The file and the loaded rule data agree and are a well-formed table.
ValidTable ==
    file.json /\ permissions = file.doc /\ WellFormed(permissions)

\* C3: from a valid rule table, a write (dry=False) of a text that does
\* not parse, or from which the rebuild raises, raises and leaves the
\* file content and the answer of every call as they were.
C3_Rollback ==
    [][(ValidTable /\ last'.op = "write" /\ ~last'.dry /\ ~last'.builds)
          => /\ last'.res = "raise"
             /\ file' = file
             /\ \A u \in Emails, p \in Paths :
                   Call(cache', wild', u, p).res = Call(cache, wild, u, p).res]_vars

\* A write whose text parsed, whose rebuild raised and which was rolled
\* back to a table that allows somebody.
C3_Witness ==
    /\ ValidTable
    /\ last.op = "write" /\ last.res = "raise" /\ ~last.dry
    /\ last.json /\ ~last.builds
    /\ \E u \in Emails, p \in Paths : Call(cache, wild, u, p).res

\* C4 as claimed: a reset() that raises while it rebuilds the tables
\* leaves every answer as the previous, valid generation gave it.
C4_FailedResetKeepsGeneration ==
    [][(ValidTable /\ last'.op = "reset" /\ last'.res = "raise" /\ file'.json)
          => \A u \in Emails, p \in Paths :
                Call(cache', wild', u, p).res = Call(cache, wild, u, p).res]_vars

\* C8 as claimed: a write (dry=False) of a document that is not an
\* object of lists of strings raises.
C8_MalformedRejected ==
    (last.op = "write" /\ ~last.dry /\ ~last.shaped) => last.res = "raise"
\* Some rule filed under the prefix allows email.
DeclaredAt(perm, prefix, email) ==
    \E i \in 1..Len(perm.entries) :
        /\ KeyPath(perm.entries[i].key) = prefix
        /\ Allows(perm.entries[i].value, email)

\* Every entry of cache c is the decision of the rules of perm.
Agrees(c, perm) ==
    \A prefix \in DOMAIN c : \A u \in DOMAIN c[prefix] :
        c[prefix][u] = DeclaredAt(perm, prefix, u)

\* C5 as claimed: once a reset that ran beside calls has returned and the
\* calls have returned, every entry of the cache agrees with the new
\* rule table.
C5_CacheOfNewGeneration ==
    (/\ rst.n > 0 /\ rst.pc = "idle"
     /\ \A t \in Threads : thr[t].pc \in {"idle", "done"})
        => Agrees(heap.caches[heap.cache], permissions)

\* C6 as claimed: a call that overlapped the reset returned the answer
\* of the old rule table or the answer of the new one.
C6_NoTornRead ==
    \A t \in Threads :
        (thr[t].pc = "done" /\ thr[t].during)
            => \/ thr[t].res = Answer(Granted(rst.old, thr[t].email, thr[t].path))
               \/ thr[t].res = Answer(Granted(permissions, thr[t].email, thr[t].path))

\* C7: with no reset running, in every interleaving of the calls of the
\* threads each call returns the answer of the rule table, which is what
\* it returns when it runs alone, and every cache entry agrees with the
\* rule table.
C7_CallsInParallel ==
    /\ \A t \in Threads :
          thr[t].pc = "done"
              => thr[t].res = Answer(Granted(permissions, thr[t].email, thr[t].path))
    /\ Agrees(heap.caches[heap.cache], permissions)

\* Two threads about to write the entry of the same identity at the
\* same prefix.
C7_Witness ==
    \E t, o \in Threads :
        /\ t /= o
        /\ thr[t].pc \in {"hit", "miss"} /\ thr[o].pc = thr[t].pc
        /\ thr[t].email = thr[o].email
        /\ Current(t) = Current(o)


\* Some rule declared at the key "/" allows email.
RootAllows(perm, email) ==
    \E i \in 1..Len(perm.entries) :
        /\ perm.entries[i].key = <<"/">>
        /\ Allows(perm.entries[i].value, email)

\* C11: on a well-formed rule table, a call for the path "/" returns True
\* exactly when an exact or wildcard rule declared at the key "/" allows
\* the email, whatever the other keys declare; with no rule at "/" it
\* returns False.
C11_RootOnly ==
    (last.op = "call" /\ last.path = <<"/">> /\ WellFormed(permissions))
        => last.res = Answer(RootAllows(permissions, last.user))

\* A call for "/" that was denied although a rule at another key allows
\* the email.
C11_Witness ==
    /\ last.op = "call" /\ last.path = <<"/">> /\ WellFormed(permissions)
    /\ last.res = "False"
    /\ \E i \in 1..Len(permissions.entries) :
          /\ permissions.entries[i].key /= <<"/">>
          /\ Allows(permissions.entries[i].value, last.user)

\* The pattern pat, which has one "*", matches email when "*" stands for
\* any sequence of characters, the empty one included: email begins with
\* what precedes the "*" and ends with what follows it.
StarMatches(email, pat) ==
    LET k == CHOOSE i \in 1..Len(pat) : pat[i] = "*"
        pre == SubSeq(pat, 1, k - 1)
        post == SubSeq(pat, k + 1, Len(pat)) IN
    /\ Len(email) >= Len(pre) + Len(post)
    /\ SubSeq(email, 1, Len(pre)) = pre
    /\ SubSeq(email, Len(email) - Len(post) + 1, Len(email)) = post

\* The pattern of a table whose only rule is one pattern at the root.
RootPattern == permissions.entries[1].value.items[1].chars

\* C12: with a table whose only rule is a wildcard pattern at the root
\* (such as "*@x"), a call for any path returns True when the email
\* matches the pattern with "*" standing for any sequence of characters
\* (the email ends in "@x"), and False when it does not.
C12_Wildcard ==
    (last.op = "call" /\ permissions \in GlobTables)
        => last.res = Answer(StarMatches(last.user, RootPattern))

\* The email "@x", for which "*" stands for no character, allowed two
\* segments below the root by the pattern "*@x".
C12_Witness ==
    /\ last.op = "call" /\ permissions \in GlobTables
    /\ RootPattern = <<"*", "@", "x">>
    /\ last.user = <<"@", "x">>
    /\ last.path = <<"/", "a", "/", "b">>
    /\ last.res = "True"

\* C13: against an unchanged rule table a call changes the answer of no
\* call, so every repetition of a call returns what its first occurrence
\* returned, whatever was asked in between; in particular a call made
\* twice in a row returns the same result twice.
C13_CacheIdempotence ==
    [][last'.op = "call"
          => /\ \A u \in Emails, p \in Paths :
                   Call(cache', wild', u, p).res = Call(cache, wild, u, p).res
             /\ last'.again => last'.res = last.res]_vars

\* A call repeated right away, granted at a deeper prefix both times:
\* the repetition found False cached at the root and evaluated no
\* pattern.
C13_Witness ==
    /\ last.op = "call" /\ last.again
    /\ last.sawFalse /\ last.res = "True" /\ last.globbed = {}

\* C14: reset() on unchanged rule data, after any queries, succeeds and
\* leaves the tables that building from that data gives, the ones the
\* constructor left, and the answer of every call as it was.
C14_IdempotentRebuild ==
    [][last'.op = "reset"
          => /\ last'.res = "ok"
             /\ permissions' = permissions
             /\ cache' = Build(permissions).cache
             /\ wild' = Build(permissions).wild
             /\ \A u \in Emails, p \in Paths :
                   Call(cache', wild', u, p).res = Call(cache, wild, u, p).res]_vars

\* A reset() of a table with a wildcard rule, after calls had cached
\* True for one identity and False for another.
C14_Witness ==
    /\ last.op = "reset" /\ last.res = "ok"
    /\ last.hadFalse /= {} /\ last.hadTrue /= {}
    /\ \E prefix \in DOMAIN wild : wild[prefix] /= <<>>
    /\ Build(permissions).cache = NoEntries

\* The gate as claimed, for the request just answered: the application
\* was called only for a session user is_authorized accepted; without a
\* session user the answer is a redirect to /_/login, for a user
\* is_authorized refused it is the 403 page, and the application was not
\* called in either case.
Gated ==
    /\ response.app => (response.user /= <<>> /\ response.asked /\ response.allowed)
    /\ response.user = <<>>
          => (response.kind = "redirect" /\ response.to = LoginPath /\ ~response.app)
    /\ (response.user /= <<>> /\ ~response.allowed)
          => (response.kind = "forbidden" /\ response.asked /\ ~response.app)

Decided(c, prefix, email) == email \in DOMAIN DictAt(c, prefix)

\* Cache c holds the decision val for email at the prefix.
Holds(c, prefix, email, val) ==
    Decided(c, prefix, email) /\ DictAt(c, prefix)[email] = val

\* C16: between two resets the patterns of a prefix are evaluated at
\* most once for an identity: a call evaluates patterns only at a prefix
\* where the cache holds no decision for the identity, it leaves a
\* decision there, and no call removes a decision; a later call that
\* reaches the prefix finds the decision and evaluates nothing there.
C16_GlobOncePerPrefix ==
    [][last'.op = "call"
          => /\ \A prefix \in last'.globbed :
                   /\ ~Decided(cache, prefix, last'.user)
                   /\ Decided(cache', prefix, last'.user)
             /\ \A prefix \in DOMAIN cache : \A u \in DOMAIN cache[prefix] :
                   Decided(cache', prefix, u)]_vars

\* A later call for "/" by an identity the pattern at the root did not
\* match: it found the False cached and evaluated no pattern.
C16_Witness ==
    /\ last.op = "call" /\ last.path = <<"/">>
    /\ last.sawFalse /\ last.globbed = {} /\ last.res = "False"
    /\ ListAt(wild, << <<>> >>) /= <<>>

\* C17: when a call returns True, the cache holds True for the email at
\* some prefix of the path, False at every shorter prefix of the path,
\* and the call created or changed nothing at any longer prefix; when
\* it returns False, the cache holds False for the email at every prefix
\* of the path.
C17_ShortCircuit ==
    [][last'.op = "call"
          => LET parts == Split(last'.path)
                 u == last'.user IN
             IF last'.res = "True"
             THEN \E i \in 1..Len(parts) :
                     /\ Holds(cache', SubSeq(parts, 1, i), u, TRUE)
                     /\ \A j \in 1..(i - 1) :
                           Holds(cache', SubSeq(parts, 1, j), u, FALSE)
                     /\ \A prefix \in (DOMAIN cache) \cup (DOMAIN cache') :
                           Len(prefix) > i
                               => DictAt(cache', prefix) = DictAt(cache, prefix)
             ELSE \A i \in 1..Len(parts) :
                     Holds(cache', SubSeq(parts, 1, i), u, FALSE)]_vars

\* A call for "/a/b" granted by a pattern at "/a": False at the root,
\* True at "/a", nothing at "/a/b".
C17_Witness ==
    /\ last.op = "call" /\ last.res = "True"
    /\ last.path = <<"/", "a", "/", "b">>
    /\ Holds(cache, << <<>> >>, last.user, FALSE)
    /\ Holds(cache, << <<>>, <<"a">> >>, last.user, TRUE)
    /\ ~Decided(cache, << <<>>, <<"a">>, <<"b">> >>, last.user)
    /\ << <<>>, <<"a">> >> \in last.globbed

\* C18: a call keeps every cache entry with its value, adds entries
\* only for its own email and only at prefixes of its path, and leaves
\* the patterns of every prefix, the rule data and the file as they
\* were.
C18_QueryFrame ==
    [][last'.op = "call"
          => /\ \A prefix \in DOMAIN cache : \A u \in DOMAIN cache[prefix] :
                   Holds(cache', prefix, u, cache[prefix][u])
             /\ \A prefix \in DOMAIN cache' : \A u \in DOMAIN cache'[prefix] :
                   ~Decided(cache, prefix, u)
                       => /\ u = last'.user
                          /\ \E i \in 1..Len(Split(last'.path)) :
                                prefix = SubSeq(Split(last'.path), 1, i)
             /\ \A prefix \in (DOMAIN wild) \cup (DOMAIN wild') :
                   ListAt(wild', prefix) = ListAt(wild, prefix)
             /\ permissions' = permissions
             /\ file' = file]_vars

\* A call that added a False at the root, where reset() had filed an
\* exact entry for another identity and a pattern.
C18_Witness ==
    /\ last.op = "call" /\ ~last.sawFalse
    /\ Holds(cache, << <<>> >>, last.user, FALSE)
    /\ \E u \in Emails : u /= last.user /\ Holds(cache, << <<>> >>, u, TRUE)
    /\ << <<>> >> \in last.globbed

\* C19: write(new_permissions, dry=True) leaves the file, the rule data,
\* the cache and the wildcard table as they were, for every text; it
\* raises exactly when the text is not parseable JSON.
C19_DryWrite ==
    [][(last'.op = "write" /\ last'.dry)
          => /\ file' = file
             /\ permissions' = permissions
             /\ cache' = cache
             /\ wild' = wild
             /\ (last'.res = "raise") = ~last'.json]_vars

\* A dry write of a document from which a rebuild would raise: it
\* returned normally, beside a cache that calls had filled.
C19_Witness ==
    /\ last.op = "write" /\ last.dry /\ last.res = "ok"
    /\ last.json /\ ~last.builds
    /\ Holders(cache, FALSE) /= {}

\* The tables c and w are those built from the document, together with
\* the decisions calls have stored from them.
TablesOf(doc, c, w) ==
    LET b == Build(doc) IN
    /\ b.ok
    /\ \A prefix \in (DOMAIN w) \cup (DOMAIN b.wild) :
          ListAt(w, prefix) = ListAt(b.wild, prefix)
    /\ \A prefix \in DOMAIN b.cache : \A u \in DOMAIN b.cache[prefix] :
          Holds(c, prefix, u, TRUE)
    /\ \A prefix \in DOMAIN c : \A u \in DOMAIN c[prefix] :
          ~Decided(b.cache, prefix, u)
              => c[prefix][u] = WildMatch(b.wild, prefix, u)

\* C20 as claimed: when the file is written by write() alone, after any
\* writes and calls the file parses, the rule data in memory is what it
\* parses to, and the tables are those built from it.
C20_FileMemoryAgree ==
    /\ file.json
    /\ permissions = file.doc
    /\ TablesOf(file.doc, cache, wild)
====
